---- MODULE Spec2Model ----
(***************************************************************************)
(* jira_fetcher.py: the paginated fetch loop, the record transformer, the  *)
(* document text extraction and the acceptance-criteria scan.              *)
(*                                                                         *)
(* A Python str is a sequence of one-character strings.  A JSON value is a *)
(* record tagged by its shape (t): "absent" (key not in the dict), "null", *)
(* "str", "num", "list" or "dict".                                         *)
(***************************************************************************)
EXTENDS Integers, Sequences, FiniteSets, TLC

VARIABLES
    \* main() and JiraFetcher.fetch_all_tickets
    pc, max_results, server, start_at, all_issues, requests, prd, output_file,
    \* JiraFetcher.transform_to_prd_format, one loop iteration per step
    tpc, tickets, idx, user_stories,
    \* JiraFetcher._extract_acceptance_criteria, one line per step
    spc, description, lines, line_no, in_criteria_section, criteria,
    \* JiraFetcher._extract_text_from_adf
    apc, adf_doc, adf_text

fetchVars == <<pc, max_results, server, start_at, all_issues, requests, prd, output_file>>
xformVars == <<tpc, tickets, idx, user_stories>>
scanVars == <<spc, description, lines, line_no, in_criteria_section, criteria>>
adfVars == <<apc, adf_doc, adf_text>>
vars == <<fetchVars, xformVars, scanVars, adfVars>>

Min(a, b) == IF a <= b THEN a ELSE b
Max(a, b) == IF a >= b THEN a ELSE b

(***************************************************************************)
(* Bounds of the model.                                                    *)
(***************************************************************************)
MaxTotal == 4
SmallPage == 3
MaxTickets == 2
MaxLines == 3
MaxParagraphs == 3

(***************************************************************************)
(* Python str operations.                                                  *)
(***************************************************************************)
UpperChars == <<"A", "B", "C", "D", "E", "F", "G", "H", "I", "J", "K", "L", "M",
                "N", "O", "P", "Q", "R", "S", "T", "U", "V", "W", "X", "Y", "Z">>
LowerChars == <<"a", "b", "c", "d", "e", "f", "g", "h", "i", "j", "k", "l", "m",
                "n", "o", "p", "q", "r", "s", "t", "u", "v", "w", "x", "y", "z">>
DigitChars == <<"0", "1", "2", "3", "4", "5", "6", "7", "8", "9">>
Whitespace == {" ", "\n", "\t", "\r"}
\* the non-ASCII bullet glyphs of line 245 are written by code point
BulletChars == {"U+2022", "-", "*", "U+2192", "U+25BA", "U+25AA", "U+25B8", " "}
NumberPrefixChars == {"0", "1", "2", "3", "4", "5", "6", "7", "8", "9", ".", ")"}

Range(s) == {s[i] : i \in 1..Len(s)}
IsUpper(c) == c \in Range(UpperChars)
IsDigit(c) == c \in Range(DigitChars)
LowerChar(c) ==
    IF IsUpper(c) THEN LowerChars[CHOOSE i \in 1..Len(UpperChars) : UpperChars[i] = c]
    ELSE c
Lower(s) == [i \in 1..Len(s) |-> LowerChar(s[i])]
Contains(s, sub) ==
    \E i \in 1..(Len(s) - Len(sub) + 1) : SubSeq(s, i, i + Len(sub) - 1) = sub

RECURSIVE LStrip(_, _)
LStrip(s, chars) ==
    IF s # <<>> /\ Head(s) \in chars THEN LStrip(Tail(s), chars) ELSE s
RECURSIVE RStrip(_, _)
RStrip(s, chars) ==
    IF s # <<>> /\ s[Len(s)] \in chars THEN RStrip(SubSeq(s, 1, Len(s) - 1), chars) ELSE s
Strip(s) == RStrip(LStrip(s, Whitespace), Whitespace)

RECURSIVE Split(_, _)
Split(s, sep) ==
    IF \E i \in 1..Len(s) : s[i] = sep
    THEN LET i == CHOOSE j \in 1..Len(s) : s[j] = sep /\ \A k \in 1..(j - 1) : s[k] # sep
         IN <<SubSeq(s, 1, i - 1)>> \o Split(SubSeq(s, i + 1, Len(s)), sep)
    ELSE <<s>>

RECURSIVE Join(_, _)
Join(parts, sep) ==
    IF parts = <<>> THEN <<>>
    ELSE IF Len(parts) = 1 THEN parts[1]
    ELSE parts[1] \o sep \o Join(Tail(parts), sep)

\* f"{idx:03d}"
RECURSIVE Decimal(_)
Decimal(n) == IF n < 10 THEN <<DigitChars[n + 1]>>
              ELSE Decimal(n \div 10) \o <<DigitChars[(n % 10) + 1]>>
Pad3(n) == LET d == Decimal(n)
           IN IF Len(d) >= 3 THEN d ELSE [i \in 1..(3 - Len(d)) |-> "0"] \o d

(***************************************************************************)
(* JSON values.  s is the text of a "str"; n is the value of a "num" and   *)
(* the length of a "list"; doc is the node tree of a "dict" description.   *)
(***************************************************************************)
EmptyDict == [type |-> "none", text |-> <<>>, content |-> <<>>]
Absent == [t |-> "absent", s |-> <<>>, n |-> 0, doc |-> EmptyDict]
Null == [t |-> "null", s |-> <<>>, n |-> 0, doc |-> EmptyDict]
Str(s) == [t |-> "str", s |-> s, n |-> 0, doc |-> EmptyDict]
Num(n) == [t |-> "num", s |-> <<>>, n |-> n, doc |-> EmptyDict]
List(n) == [t |-> "list", s |-> <<>>, n |-> n, doc |-> EmptyDict]
Doc(node) == [t |-> "dict", s |-> <<>>, n |-> 0, doc |-> node]

\* bool(value) of a value that is not a dict
Truthy(v) ==
    CASE v.t = "str" -> v.s # <<>>
      [] v.t \in {"num", "list"} -> v.n # 0
      [] OTHER -> FALSE

\* str(value), as an f-string formats it
FormatValue(v) ==
    CASE v.t = "str" -> v.s
      [] v.t = "null" -> <<"N", "o", "n", "e">>
      [] v.t = "num" -> Decimal(v.n)
      [] OTHER -> <<"[">> \o Join([i \in 1..v.n |-> <<"0">>], <<",", " ">>) \o <<"]">>

(***************************************************************************)
(* _extract_text_from_adf.  A node is [type, text, content]; a key that is *)
(* absent reads as its .get default ('' and []).  A bare list is a node    *)
(* of another type: both branches of traverse only walk the children.      *)
(***************************************************************************)
NL == <<"\n">>
TextNode(s) == [type |-> "text", text |-> s, content |-> <<>>]
Node(type, children) == [type |-> type, text |-> <<>>, content |-> children]

EmitNoSeparator(node, text_parts) ==
    IF node.type = "text" THEN Append(text_parts, node.text) ELSE text_parts

Emit(node, text_parts) ==
    IF node.type = "text" THEN Append(text_parts, node.text)
    ELSE IF node.type \in {"paragraph", "heading"}
         THEN IF text_parts # <<>> /\ text_parts[Len(text_parts)] # NL
              THEN Append(text_parts, NL)
              ELSE text_parts
         ELSE text_parts

RECURSIVE traverse(_, _)
RECURSIVE traverseAll(_, _)
traverse(node, text_parts) == traverseAll(node.content, Emit(node, text_parts))
traverseAll(children, text_parts) ==
    IF children = <<>> THEN text_parts
    ELSE traverseAll(Tail(children), traverse(Head(children), text_parts))

ExtractTextFromAdf(doc) == Strip(Join(traverse(doc, <<>>), <<" ">>))

(***************************************************************************)
(* _extract_acceptance_criteria: the body of the loop over the lines.      *)
(***************************************************************************)
Acceptance == <<"a", "c", "c", "e", "p", "t", "a", "n", "c", "e">>
AcceptanceCriteria == Acceptance \o <<" ", "c", "r", "i", "t", "e", "r", "i", "a">>

IsMarker(line) ==
    Contains(Lower(line), AcceptanceCriteria) \/ Contains(Lower(line), Acceptance)
IsOtherSection(line) == line # <<>> /\ IsUpper(line[1]) /\ ":" \in Range(line)
Clean(line) ==
    LET c1 == LStrip(line, BulletChars)
        c2 == IF c1 # <<>> /\ IsDigit(c1[1]) THEN LStrip(c1, NumberPrefixChars) ELSE c1
    IN Strip(c2)

\* the loop body on one raw line: what to do ("continue", "break", "next"),
\* and the flag and the list after it
ScanLineMarkerEmitted(raw, in_section, crit) ==
    LET line == Strip(raw)
    IN IF ~in_section /\ IsMarker(line)
       THEN [do |-> "continue", in_criteria_section |-> TRUE, criteria |-> crit]
       ELSE IF in_section /\ IsOtherSection(line)
       THEN [do |-> "break", in_criteria_section |-> in_section, criteria |-> crit]
       ELSE IF in_section /\ line # <<>> /\ Clean(line) # <<>>
       THEN [do |-> "next", in_criteria_section |-> in_section,
             criteria |-> Append(crit, Clean(line))]
       ELSE [do |-> "next", in_criteria_section |-> in_section, criteria |-> crit]

ScanLineNoBreak(raw, in_section, crit) ==
    LET line == Strip(raw)
    IN IF IsMarker(line)
       THEN [do |-> "continue", in_criteria_section |-> TRUE, criteria |-> crit]
       ELSE IF in_section /\ line # <<>> /\ Clean(line) # <<>>
       THEN [do |-> "next", in_criteria_section |-> in_section,
             criteria |-> Append(crit, Clean(line))]
       ELSE [do |-> "next", in_criteria_section |-> in_section, criteria |-> crit]

ScanLine(raw, in_section, crit) ==
    LET line == Strip(raw)
    IN IF IsMarker(line)
       THEN [do |-> "continue", in_criteria_section |-> TRUE, criteria |-> crit]
       ELSE IF in_section /\ IsOtherSection(line)
       THEN [do |-> "break", in_criteria_section |-> in_section, criteria |-> crit]
       ELSE IF in_section /\ line # <<>> /\ Clean(line) # <<>>
       THEN [do |-> "next", in_criteria_section |-> in_section,
             criteria |-> Append(crit, Clean(line))]
       ELSE [do |-> "next", in_criteria_section |-> in_section, criteria |-> crit]

RECURSIVE ScanFrom(_, _, _, _)
ScanFrom(ls, i, in_section, crit) ==
    IF i > Len(ls) THEN crit
    ELSE LET r == ScanLine(ls[i], in_section, crit)
         IN IF r.do = "break" THEN r.criteria
            ELSE ScanFrom(ls, i + 1, r.in_criteria_section, r.criteria)

ExtractAcceptanceCriteria(text) == ScanFrom(Split(text, "\n"), 1, FALSE, <<>>)

(***************************************************************************)
(* transform_to_prd_format: the body of the loop over the tickets.         *)
(* A ticket is [key, fields]; fields is [t, summary, description,          *)
(* priority, status]; priority and status are [t, n, name], n counting the *)
(* keys other than name of a dict (the size of a str, list or num).        *)
(***************************************************************************)
Implement == <<"I", "m", "p", "l", "e", "m", "e", "n", "t", " ">>
Untitled == <<"U", "n", "t", "i", "t", "l", "e", "d">>
CodePassesAllTests == <<"C", "o", "d", "e", " ", "p", "a", "s", "s", "e", "s", " ",
                        "a", "l", "l", " ", "t", "e", "s", "t", "s">>
DocumentationUpdated == <<"D", "o", "c", "u", "m", "e", "n", "t", "a", "t", "i", "o", "n",
                          " ", "u", "p", "d", "a", "t", "e", "d">>
Medium == <<"m", "e", "d", "i", "u", "m">>

PriorityMapFlat(name, i) ==
    CASE name = <<"h", "i", "g", "h", "e", "s", "t">> -> 1
      [] name = <<"h", "i", "g", "h">> -> 2
      [] name = Medium -> 3
      [] name = <<"l", "o", "w">> -> 4
      [] name = <<"l", "o", "w", "e", "s", "t">> -> 5
      [] OTHER -> 3

\* priority_map.get(priority_name, idx)
PriorityMap(name, i) ==
    CASE name = <<"h", "i", "g", "h", "e", "s", "t">> -> 1
      [] name = <<"h", "i", "g", "h">> -> 2
      [] name = Medium -> 3
      [] name = <<"l", "o", "w">> -> 4
      [] name = <<"l", "o", "w", "e", "s", "t">> -> 5
      [] OTHER -> i

DoneStatuses == {<<"d", "o", "n", "e">>, <<"c", "l", "o", "s", "e", "d">>,
                 <<"r", "e", "s", "o", "l", "v", "e", "d">>,
                 <<"c", "o", "m", "p", "l", "e", "t", "e", "d">>}

\* ticket.get('key', f'US-{idx:03d}')
KeyOf(ticket, i) ==
    IF ticket.key.t = "absent" THEN Str(<<"U", "S", "-">> \o Pad3(i)) ELSE ticket.key

\* fields.get('summary', 'Untitled')
TitleOf(fields) == IF fields.summary.t = "absent" THEN Str(Untitled) ELSE fields.summary

\* lines 134-139; a description that is no str makes line 228 raise
DescriptionRaises(fields) ==
    fields.description.t \in {"num", "list"} /\ Truthy(fields.description)

DescriptionOf(fields) ==
    LET d == fields.description
    IN CASE d.t = "absent" -> ExtractTextFromAdf(EmptyDict)
         [] d.t = "dict" -> ExtractTextFromAdf(d.doc)
         [] Truthy(d) -> d.s
         [] OTHER -> Implement \o FormatValue(TitleOf(fields))

DefaultCriteria(title) ==
    <<Implement \o FormatValue(title), CodePassesAllTests, DocumentationUpdated>>

CriteriaOfNoDefault(text, title) == ExtractAcceptanceCriteria(text)

\* lines 142-148
CriteriaOf(text, title) ==
    LET acceptance_criteria == ExtractAcceptanceCriteria(text)
    IN IF acceptance_criteria = <<>> THEN DefaultCriteria(title) ELSE acceptance_criteria

\* bool(priority_obj)
PriorityTruthy(p) ==
    CASE p.t \in {"absent", "null"} -> FALSE
      [] p.t = "dict" -> p.name.t # "absent" \/ p.n > 0
      [] OTHER -> p.n # 0

\* line 152 raises AttributeError on .get of a non-dict and on .lower of a non-str
PriorityRaises(p) ==
    PriorityTruthy(p) /\ (p.t # "dict" \/ p.name.t \notin {"absent", "str"})
PriorityName(p) ==
    IF PriorityTruthy(p) /\ p.name.t = "str" THEN Lower(p.name.s) ELSE Medium

\* line 156 raises on .get of a non-dict and on .lower of a non-str
StatusRaises(st) ==
    st.t \notin {"absent", "dict"} \/ (st.t = "dict" /\ st.name.t \notin {"absent", "str"})
StatusName(st) == IF st.t = "dict" /\ st.name.t = "str" THEN Lower(st.name.s) ELSE <<>>

\* line 131 raises on .get of a fields value that is no dict
FieldsRaise(f) == f.t \notin {"absent", "dict"}
EmptyFields ==
    [t |-> "dict", summary |-> Absent, description |-> Absent,
     priority |-> [t |-> "absent", n |-> 0, name |-> Absent],
     status |-> [t |-> "absent", n |-> 0, name |-> Absent]]
FieldsOf(ticket) == IF ticket.fields.t = "absent" THEN EmptyFields ELSE ticket.fields

NoStory == [id |-> Null, title |-> Null, description |-> <<>>, acceptanceCriteria |-> <<>>,
            priority |-> 0, passes |-> FALSE, notes |-> <<>>]

TicketRaises(ticket) ==
    \/ FieldsRaise(ticket.fields)
    \/ DescriptionRaises(FieldsOf(ticket))
    \/ PriorityRaises(FieldsOf(ticket).priority)
    \/ StatusRaises(FieldsOf(ticket).status)

\* one iteration of the loop of line 126: the story appended, or an exception
TransformTicket(i, ticket) ==
    IF TicketRaises(ticket) THEN [raised |-> TRUE, story |-> NoStory]
    ELSE LET fields == FieldsOf(ticket)
             title == TitleOf(fields)
             text == DescriptionOf(fields)
         IN [raised |-> FALSE,
             story |-> [id |-> KeyOf(ticket, i),
                        title |-> title,
                        description |-> text,
                        acceptanceCriteria |-> CriteriaOf(text, title),
                        priority |-> PriorityMap(PriorityName(fields.priority), i),
                        passes |-> StatusName(fields.status) \in DoneStatuses,
                        notes |-> <<>>]]

RECURSIVE TransformFrom(_, _, _)
TransformFrom(ts, i, stories) ==
    IF i > Len(ts) THEN [raised |-> FALSE, userStories |-> stories]
    ELSE LET r == TransformTicket(i, ts[i])
         IN IF r.raised THEN [raised |-> TRUE, userStories |-> <<>>]
            ELSE TransformFrom(ts, i + 1, Append(stories, r.story))

TransformToPrdFormat(ts) == TransformFrom(ts, 1, <<>>)

(***************************************************************************)
(* The search endpoint.  The server holds server.records issues, keyed     *)
(* P-1, P-2, ... in the order of the query.  A "full" server answers with  *)
(* the page asked for and its true total; a "short" one may cut a page     *)
(* short and may report no total (read as 0) or one record too many; a     *)
(* "flaky" one may also fail the request.                                  *)
(***************************************************************************)
MaxResultsLimit == 100
PageSizes == (0..SmallPage) \cup {MaxResultsLimit, MaxResultsLimit + 1}
ServerModes == {"full", "short", "flaky"}

ServerIssue(i) ==
    [key |-> Str(<<"P", "-">> \o Decimal(i)),
     fields |-> [t |-> "dict", summary |-> Str(<<"T">> \o Decimal(i)), description |-> Null,
                 priority |-> [t |-> "absent", n |-> 0, name |-> Absent],
                 status |-> [t |-> "dict", n |-> 0, name |-> Str(<<"D", "o", "n", "e">>)]]]

Page(offset, count) == [i \in 1..count |-> ServerIssue(offset + i)]

Responses(srv, offset, limit) ==
    LET left == Max(0, srv.records - offset)
        full == {[ok |-> TRUE, count |-> Min(limit, left), total |-> srv.records]}
        short == {[ok |-> TRUE, count |-> k, total |-> tt] :
                     k \in 0..Min(limit, left),
                     tt \in {0, srv.records, srv.records + 1}}
        failed == {[ok |-> FALSE, count |-> 0, total |-> 0]}
    IN CASE srv.mode = "full" -> full
         [] srv.mode = "short" -> short
         [] OTHER -> short \cup failed

(***************************************************************************)
(* main() and fetch_all_tickets.                                           *)
(***************************************************************************)
NoPrd == [made |-> FALSE, userStories |-> <<>>]

\* lines 314-317 and 49-50
Validate ==
    /\ pc = "main"
    /\ IF max_results < 1 \/ max_results > MaxResultsLimit
       THEN pc' = "exit1"
       ELSE pc' = "fetching"
    /\ UNCHANGED <<max_results, server, start_at, all_issues, requests, prd, output_file>>
    /\ UNCHANGED <<xformVars, scanVars, adfVars>>

CoveredStrictly(offset, received, total) == offset + received > total

\* line 87
Covered(offset, received, total) == offset + received >= total

NextStartByLimit(offset, received) == offset + max_results

\* line 90
NextStart(offset, received) == offset + received

OnRequestErrorBreak == "fetched"

\* lines 92-96
OnRequestError == "exit1"

\* one iteration of the loop of line 57
FetchPage ==
    /\ pc = "fetching"
    /\ \E resp \in Responses(server, start_at, max_results) :
         /\ requests' = Append(requests, [startAt |-> start_at, maxResults |-> max_results,
                                          ok |-> resp.ok, count |-> resp.count,
                                          total |-> resp.total])
         /\ IF ~resp.ok
            THEN /\ pc' = OnRequestError
                 /\ UNCHANGED <<start_at, all_issues>>
            ELSE IF resp.count = 0
            THEN /\ pc' = "fetched"
                 /\ UNCHANGED <<start_at, all_issues>>
            ELSE /\ all_issues' = all_issues \o Page(start_at, resp.count)
                 /\ IF Covered(start_at, resp.count, resp.total)
                    THEN pc' = "fetched" /\ UNCHANGED start_at
                    ELSE pc' = "fetching" /\ start_at' = NextStart(start_at, resp.count)
    /\ UNCHANGED <<max_results, server, prd, output_file>>
    /\ UNCHANGED <<xformVars, scanVars, adfVars>>

\* lines 326-332; an exception out of the transformer ends the process
Transform ==
    /\ pc = "fetched"
    /\ LET r == TransformToPrdFormat(all_issues)
       IN IF r.raised
          THEN pc' = "exit1" /\ UNCHANGED prd
          ELSE pc' = "saving" /\ prd' = [made |-> TRUE, userStories |-> r.userStories]
    /\ UNCHANGED <<max_results, server, start_at, all_issues, requests, output_file>>
    /\ UNCHANGED <<xformVars, scanVars, adfVars>>

\* lines 335-343; a failed write leaves no file or a truncated one
Save ==
    /\ pc = "saving"
    /\ \E result \in {"complete", "partial", "none"} :
         /\ output_file' = result
         /\ pc' = IF result = "complete" THEN "exit0" ELSE "exit1"
    /\ UNCHANGED <<max_results, server, start_at, all_issues, requests, prd>>
    /\ UNCHANGED <<xformVars, scanVars, adfVars>>

IdleXform == tpc = "idle" /\ tickets = <<>> /\ idx = 0 /\ user_stories = <<>>
IdleScan ==
    /\ spc = "idle" /\ description = <<>> /\ lines = <<>> /\ line_no = 0
    /\ in_criteria_section = FALSE /\ criteria = <<>>
IdleAdf == apc = "idle" /\ adf_doc = EmptyDict /\ adf_text = <<>>
IdleFetch ==
    /\ pc = "idle" /\ max_results = MaxResultsLimit
    /\ server = [records |-> 0, mode |-> "full"]
    /\ start_at = 0 /\ all_issues = <<>> /\ requests = <<>>
    /\ prd = NoPrd /\ output_file = "none"

Init ==
    /\ pc = "main"
    /\ max_results \in PageSizes
    /\ server \in [records : 0..MaxTotal, mode : ServerModes]
    /\ start_at = 0
    /\ all_issues = <<>>
    /\ requests = <<>>
    /\ prd = NoPrd
    /\ output_file = "none"
    /\ IdleXform /\ IdleScan /\ IdleAdf

Next == Validate \/ FetchPage \/ Transform \/ Save

Spec == Init /\ [][Next]_vars

(***************************************************************************)
(* Properties of the fetch loop and of main(), checked under Spec.         *)
(***************************************************************************)
CeilDiv(a, b) == (a + b - 1) \div b
Requested == Len(requests)
Returned == pc = "fetched"
DistinctKeys(issues) ==
    \A i, j \in 1..Len(issues) : i # j => issues[i].key # issues[j].key

\* C1 as stated: from a server that serves its T records in full pages of
\* max_results, the fetch returns the T records, keys distinct, in the
\* server's order, after exactly ceil(T / max_results) requests.
C1_CeilRequests ==
    (Returned /\ server.mode = "full") =>
        /\ all_issues = Page(0, server.records)
        /\ DistinctKeys(all_issues)
        /\ Requested = CeilDiv(server.records, max_results)

\* C1 amended: the same, with one request (answered by the empty page) when
\* the server holds no record.
C1_PaginationComplete ==
    (Returned /\ server.mode = "full") =>
        /\ all_issues = Page(0, server.records)
        /\ Len(all_issues) = server.records
        /\ DistinctKeys(all_issues)
        /\ Requested = Max(1, CeilDiv(server.records, max_results))

C1_Witness ==
    /\ Returned /\ server.mode = "full"
    /\ server.records = MaxTotal /\ max_results = 2
    /\ Requested = CeilDiv(MaxTotal, 2) /\ Requested > 1

\* C2: a page size outside 1..100 ends the run with a nonzero status before
\* any request; a failed request is the last request of the run and ends it
\* with a nonzero status at once; in both cases nothing is transformed and no
\* output file is written, so a written file means every request succeeded.
C2_AbortOnError ==
    /\ (max_results < 1 \/ max_results > MaxResultsLimit) =>
          /\ pc \in {"main", "exit1"}
          /\ requests = <<>> /\ ~prd.made /\ output_file = "none"
    /\ \A i \in 1..Requested :
          ~requests[i].ok =>
              /\ i = Requested
              /\ pc = "exit1"
              /\ ~prd.made /\ output_file = "none"
    /\ (output_file # "none" \/ prd.made) => \A i \in 1..Requested : requests[i].ok

C2_Witness ==
    /\ Requested >= 2 /\ ~requests[Requested].ok
    /\ all_issues # <<>> /\ pc = "exit1"

\* the offset of request i is the number of records the earlier pages held
RECURSIVE Received(_)
Received(n) == IF n = 0 THEN 0 ELSE Received(n - 1) + requests[n].count

\* C8: the first request is at offset 0; after a successful page the loop
\* ends exactly when the page is empty or offset + received >= total, and
\* otherwise goes on at offset + received; so each request's offset is the
\* number of records accumulated, offsets strictly increase, and the records
\* accumulated are the server's first ones, none skipped and none twice.
C8_StepRule ==
    /\ [][pc = "fetching" =>
            LET r == requests'[Len(requests')]
                stop == r.count = 0 \/ start_at + r.count >= r.total
            IN /\ Len(requests') = Requested + 1
               /\ r.startAt = start_at /\ r.startAt = Len(all_issues)
               /\ r.ok => /\ (pc' = "fetched") <=> stop
                          /\ (pc' = "fetching") <=> ~stop
                          /\ ~stop => start_at' = start_at + r.count
                          /\ Len(all_issues') = Len(all_issues) + r.count]_vars
    /\ [](/\ Requested > 0 => requests[1].startAt = 0
          /\ \A i \in 1..Requested : requests[i].startAt = Received(i - 1)
          /\ \A i \in 1..(Requested - 1) : requests[i].startAt < requests[i + 1].startAt
          /\ all_issues = Page(0, Len(all_issues))
          /\ DistinctKeys(all_issues))

C8_Witness ==
    /\ Returned /\ Requested >= 3
    /\ requests[1].count < max_results
    /\ requests[2].startAt = requests[1].count
    /\ requests[Requested].count = 0 /\ Len(all_issues) < requests[Requested].total

(***************************************************************************)
(* The inputs of the transformer, of the scan and of the extraction.       *)
(***************************************************************************)
LIntro == <<"S", "o", "m", "e", " ", "i", "n", "t", "r", "o", ".">>
LHeader == <<"A", "c", "c", "e", "p", "t", "a", "n", "c", "e", " ", "C", "r", "i", "t", "e", "r", "i", "a", ":">>
LDash == <<"-", " ", "D", "o", " ", "t", "h", "e", " ", "t", "h", "i", "n", "g">>
LNumbered == <<"2", ")", " ", "D", "o", " ", "a", "n", "o", "t", "h", "e", "r", " ", "t", "h", "i", "n", "g">>
LNotes == <<"N", "o", "t", "e", "s", ":", " ", "i", "g", "n", "o", "r", "e", " ", "t", "h", "i", "s">>
LBlank == <<" ", " ">>
LMention == <<"m", "u", "s", "t", " ", "m", "e", "e", "t", " ", "a", "c", "c", "e", "p", "t", "a", "n", "c", "e">>
LIndented == <<" ", "F", "i", "x", ":", " ", "x">>
LBulletOnly == <<"*", " ", "1", ".">>
LinePool == {LIntro, LHeader, LDash, LNumbered, LNotes, LBlank, LMention, LIndented,
             LBulletOnly}

RECURSIVE SeqsUpTo(_, _)
SeqsUpTo(S, n) ==
    IF n = 0 THEN {<<>>}
    ELSE LET shorter == SeqsUpTo(S, n - 1)
         IN shorter \cup {Append(q, x) : q \in shorter, x \in S}

ExampleText == Join(<<LIntro, LHeader, LDash, LNumbered, LNotes>>, NL)
TwoSectionText == Join(<<ExampleText, LMention, LDash>>, NL)
Descriptions ==
    {Join(ls, NL) : ls \in SeqsUpTo(LinePool, MaxLines)} \cup {ExampleText, TwoSectionText}

Hello == <<"H", "e", "l", "l", "o">>
World == <<"W", "o", "r", "l", "d">>
Paragraph(s) == Node("paragraph", <<TextNode(s)>>)
Heading(s) == Node("heading", <<TextNode(s)>>)
Blocks == {Paragraph(s) : s \in {Hello, World, <<>>, NL}}
            \cup {Heading(s) : s \in {Hello, World}} \cup {TextNode(Hello)}
AdfDocs == {Node("doc", bs) : bs \in SeqsUpTo(Blocks, MaxParagraphs)}
HelloWorldDoc == Node("doc", <<Paragraph(Hello), Paragraph(World)>>)
CriteriaDoc == Node("doc", <<Paragraph(LIntro), Heading(LHeader), Paragraph(LDash)>>)

Login == <<"L", "o", "g", "i", "n">>
Labels == {<<"H", "i", "g", "h", "e", "s", "t">>,
           <<"M", "e", "d", "i", "u", "m">>,
           <<"L", "O", "W">>,
           <<"l", "o", "w", "e", "s", "t">>,
           <<"u", "r", "g", "e", "n", "t">>}
Statuses == {<<"C", "L", "O", "S", "E", "D">>,
             <<"I", "n", " ", "P", "r", "o", "g", "r", "e", "s", "s">>}

Dict(other, name) == [t |-> "dict", n |-> other, name |-> name]
NonDict(t, size) == [t |-> t, n |-> size, name |-> Absent]
BaseFields ==
    [t |-> "dict", summary |-> Str(Login), description |-> Str(LDash),
     priority |-> Dict(1, Str(<<"H", "i", "g", "h">>)), status |-> Dict(1, Str(<<"D", "o", "n", "e">>))]
BaseTicket == [key |-> Str(<<"P", "-", "1">>), fields |-> BaseFields]

Keys == {Absent, Null}
FieldShapes == {"absent", "null", "list"}
Summaries == {Absent, Null}
DescriptionValues ==
    {Absent, Null, Str(<<>>), Str(ExampleText), Str(Join(<<LHeader, LBulletOnly>>, NL)),
     Num(5), List(0), Doc(HelloWorldDoc), Doc(CriteriaDoc)}
Priorities ==
    {NonDict("absent", 0), NonDict("null", 0), Dict(0, Absent), Dict(1, Absent),
     Dict(1, Null), NonDict("str", 4)}
        \cup {Dict(1, Str(l)) : l \in Labels}
StatusValues ==
    {NonDict("absent", 0), NonDict("null", 0), Dict(1, Null)}
        \cup {Dict(1, Str(l)) : l \in Statuses}

\* the base ticket with one consumed field varied at a time
IssuePool ==
    {BaseTicket}
        \cup {[BaseTicket EXCEPT !.key = k] : k \in Keys}
        \cup {[BaseTicket EXCEPT !.fields.t = t] : t \in FieldShapes}
        \cup {[BaseTicket EXCEPT !.fields.summary = v] : v \in Summaries}
        \cup {[BaseTicket EXCEPT !.fields.description = v] : v \in DescriptionValues}
        \cup {[BaseTicket EXCEPT !.fields.priority = v] : v \in Priorities}
        \cup {[BaseTicket EXCEPT !.fields.status = v] : v \in StatusValues}

(***************************************************************************)
(* transform_to_prd_format on its own: the loop of line 126, one ticket    *)
(* per step, over every sequence of up to MaxTickets tickets of the pool.  *)
(***************************************************************************)
InitTransform ==
    /\ tpc = "loop"
    /\ tickets \in SeqsUpTo(IssuePool, MaxTickets)
    /\ idx = 1
    /\ user_stories = <<>>
    /\ IdleFetch /\ IdleScan /\ IdleAdf

TransformStep ==
    /\ tpc = "loop"
    /\ idx <= Len(tickets)
    /\ LET r == TransformTicket(idx, tickets[idx])
       IN IF r.raised
          THEN tpc' = "raised" /\ UNCHANGED <<idx, user_stories>>
          ELSE /\ user_stories' = Append(user_stories, r.story)
               /\ idx' = idx + 1
               /\ tpc' = "loop"
    /\ UNCHANGED tickets
    /\ UNCHANGED <<fetchVars, scanVars, adfVars>>

TransformReturn ==
    /\ tpc = "loop"
    /\ idx > Len(tickets)
    /\ tpc' = "returned"
    /\ UNCHANGED <<tickets, idx, user_stories>>
    /\ UNCHANGED <<fetchVars, scanVars, adfVars>>

NextTransform == TransformStep \/ TransformReturn

SpecTransform == InitTransform /\ [][NextTransform]_vars

Stories == 1..Len(user_stories)
RawFields(i) == tickets[i].fields
RawPriority(i) == RawFields(i).priority
RawDescription(i) == IF RawFields(i).t = "dict" THEN RawFields(i).description ELSE Absent
TitleText(i) == FormatValue(user_stories[i].title)

\* C3: whatever the shape of a consumed field, the transformer raises
\* nothing and returns one user story per raw issue.
C3_NeverFatal ==
    /\ tpc # "raised"
    /\ tpc = "returned" => Len(user_stories) = Len(tickets)

\* the rank the table of the claim gives a lower-cased label, 0 if none
ClaimRank(label) ==
    LET table == <<<<"h", "i", "g", "h", "e", "s", "t">>, <<"h", "i", "g", "h">>,
                   <<"m", "e", "d", "i", "u", "m">>, <<"l", "o", "w">>,
                   <<"l", "o", "w", "e", "s", "t">>>>
    IN IF \E r \in 1..5 : table[r] = label
       THEN CHOOSE r \in 1..5 : table[r] = label
       ELSE 0
HasLabel(i) ==
    RawFields(i).t = "dict" /\ RawPriority(i).t = "dict" /\ RawPriority(i).name.t = "str"
LabelRank(i) == ClaimRank(Lower(RawPriority(i).name.s))

\* C4 as stated: the story at position i has priority 1..5 for the labels
\* highest, high, medium, low, lowest in any case, and priority i when the
\* label is unrecognized or absent.
C4_AbsentIsPosition ==
    \A i \in Stories :
        user_stories[i].priority =
            IF HasLabel(i) /\ LabelRank(i) # 0 THEN LabelRank(i) ELSE i

\* C4 amended: priority i only for a label that is present and unrecognized;
\* an absent label (no priority, a null or empty one, or one with no name)
\* reads as "medium" and has priority 3.
C4_PriorityMapping ==
    \A i \in Stories :
        user_stories[i].priority =
            IF HasLabel(i)
            THEN IF LabelRank(i) # 0 THEN LabelRank(i) ELSE i
            ELSE 3

C4_Witness ==
    /\ tpc = "returned"
    /\ \E i, j \in Stories :
          /\ ~HasLabel(i) /\ i # 3 /\ user_stories[i].priority = 3
          /\ HasLabel(j) /\ LabelRank(j) = 0 /\ j # 3 /\ user_stories[j].priority = j

\* C5: the description of a story is the extracted text of a raw description
\* that is a document object, the raw description itself when it is a
\* string, and "Implement <title>" when it is absent or falsy.
C5_DescriptionResolution ==
    \A i \in Stories :
        LET d == RawDescription(i)
        IN user_stories[i].description =
              CASE d.t = "dict" -> ExtractTextFromAdf(d.doc)
                [] d.t = "str" /\ d.s # <<>> -> d.s
                [] OTHER -> Implement \o TitleText(i)

NoMarker(text) == ~Contains(Lower(text), Acceptance)
ThreeDefaults(i) == <<Implement \o TitleText(i), CodePassesAllTests, DocumentationUpdated>>

\* C7: every story has at least one acceptance criterion, and a story whose
\* description yields no criterion (one without "acceptance" in it, for one)
\* has exactly the three defaults, the first one naming its title.
C7_CriteriaNeverEmpty ==
    \A i \in Stories :
        /\ user_stories[i].acceptanceCriteria # <<>>
        /\ NoMarker(user_stories[i].description) =>
              user_stories[i].acceptanceCriteria = ThreeDefaults(i)
        /\ ExtractAcceptanceCriteria(user_stories[i].description) = <<>> =>
              user_stories[i].acceptanceCriteria = ThreeDefaults(i)

C7_Witness ==
    /\ tpc = "returned"
    /\ \E i, j \in Stories :
          /\ NoMarker(user_stories[i].description)
          /\ user_stories[i].description # <<>>
          /\ user_stories[i].acceptanceCriteria = ThreeDefaults(i)
          /\ ~NoMarker(user_stories[j].description)
          /\ user_stories[j].acceptanceCriteria = ThreeDefaults(j)

(***************************************************************************)
(* _extract_acceptance_criteria on its own: the loop of line 231, one line *)
(* per step.  line_no is the line the loop is at; it stays on the line     *)
(* that broke the loop.                                                    *)
(***************************************************************************)
InitCriteria ==
    /\ spc = "loop"
    /\ description \in Descriptions
    /\ lines = Split(description, "\n")
    /\ line_no = 1
    /\ in_criteria_section = FALSE
    /\ criteria = <<>>
    /\ IdleFetch /\ IdleXform /\ IdleAdf

ScanStep ==
    /\ spc = "loop"
    /\ line_no <= Len(lines)
    /\ LET r == ScanLine(lines[line_no], in_criteria_section, criteria)
       IN /\ in_criteria_section' = r.in_criteria_section
          /\ criteria' = r.criteria
          /\ IF r.do = "break"
             THEN spc' = "returned" /\ UNCHANGED line_no
             ELSE spc' = "loop" /\ line_no' = line_no + 1
    /\ UNCHANGED <<description, lines>>
    /\ UNCHANGED <<fetchVars, xformVars, adfVars>>

ScanReturn ==
    /\ spc = "loop"
    /\ line_no > Len(lines)
    /\ spc' = "returned"
    /\ UNCHANGED <<description, lines, line_no, in_criteria_section, criteria>>
    /\ UNCHANGED <<fetchVars, xformVars, adfVars>>

NextCriteria == ScanStep \/ ScanReturn

SpecCriteria == InitCriteria /\ [][NextCriteria]_vars

AtLine == spc = "loop" /\ line_no <= Len(lines)
Trimmed(k) == Strip(lines[k])
MarkerAt(k) == Contains(Lower(lines[k]), Acceptance)
HeadingAt(k) ==
    /\ Trimmed(k) # <<>>
    /\ Trimmed(k)[1] \in Range(UpperChars)
    /\ \E c \in 1..Len(Trimmed(k)) : Trimmed(k)[c] = ":"
\* the first line of a set of lines, Len(lines) + 1 when there is none
First(S) == IF S = {} THEN Len(lines) + 1 ELSE CHOOSE k \in S : \A j \in S : k <= j
FirstMarker == First({k \in 1..Len(lines) : MarkerAt(k)})
FirstHeading == First({k \in (FirstMarker + 1)..Len(lines) : HeadingAt(k)})
FirstPlainHeading ==
    First({k \in (FirstMarker + 1)..Len(lines) : HeadingAt(k) /\ ~MarkerAt(k)})
Contributes == criteria' # criteria

\* C9 as stated: only lines after the first marker line and before the first
\* later line that is non-empty, starts with an upper-case letter and holds a
\* colon contribute to the output, that line ends the scan, and a text
\* with no marker line yields nothing.
C9_AnyHeadingEndsScan ==
    /\ [][AtLine =>
            /\ Contributes => FirstMarker < line_no /\ line_no < FirstHeading
            /\ line_no = FirstHeading => spc' = "returned"]_vars
    /\ [](FirstMarker > Len(lines) => criteria = <<>>)

\* C9 amended: the line that ends the scan is the first such line after the
\* first marker that does not itself contain "acceptance".
C9_ScanWindow ==
    /\ [][AtLine =>
            /\ Contributes => FirstMarker < line_no /\ line_no < FirstPlainHeading
            /\ line_no = FirstPlainHeading => spc' = "returned" /\ ~Contributes
            /\ line_no <= FirstPlainHeading]_vars
    /\ [](FirstMarker > Len(lines) => criteria = <<>>)

C9_Witness ==
    /\ spc = "returned" /\ line_no = FirstPlainHeading /\ criteria # <<>>
    /\ \E k \in (line_no + 1)..(Len(lines) - 1) : MarkerAt(k) /\ Trimmed(k + 1) # <<>>

\* C10 as stated: a marker line met inside the section leaves the scan
\* inside the section and is cleaned and appended to the output like any
\* other line.
C10_SecondMarkerEmitted ==
    [][(AtLine /\ in_criteria_section /\ MarkerAt(line_no)) =>
          /\ in_criteria_section'
          /\ criteria' = Append(criteria, Clean(Trimmed(line_no)))]_vars

\* C10 amended: a marker line met inside the section leaves the scan inside
\* the section and is skipped: nothing is appended and the scan goes on.
C10_SecondMarkerSkipped ==
    [][(AtLine /\ in_criteria_section /\ MarkerAt(line_no)) =>
          /\ in_criteria_section'
          /\ criteria' = criteria
          /\ spc' = "loop" /\ line_no' = line_no + 1]_vars

C10_Witness ==
    /\ in_criteria_section /\ line_no > 3
    /\ MarkerAt(1) /\ ~MarkerAt(2) /\ MarkerAt(3)
    /\ criteria = <<Clean(Trimmed(2))>>

(***************************************************************************)
(* _extract_text_from_adf on its own, over the documents of AdfDocs.       *)
(***************************************************************************)
InitAdf ==
    /\ apc = "call"
    /\ adf_doc \in AdfDocs
    /\ adf_text = <<>>
    /\ IdleFetch /\ IdleXform /\ IdleScan

ExtractText ==
    /\ apc = "call"
    /\ adf_text' = ExtractTextFromAdf(adf_doc)
    /\ apc' = "returned"
    /\ UNCHANGED adf_doc
    /\ UNCHANGED <<fetchVars, xformVars, scanVars>>

NextAdf == ExtractText

SpecAdf == InitAdf /\ [][NextAdf]_vars

OnlyParagraphs ==
    /\ adf_doc.content # <<>>
    /\ \A b \in 1..Len(adf_doc.content) : adf_doc.content[b].type = "paragraph"
Texts == [b \in 1..Len(adf_doc.content) |-> adf_doc.content[b].content[1].text]

\* C6 as stated: the text of a document of paragraphs of one text node each
\* is the texts joined by one space, with no newline in it: "Hello World"
\* for the paragraphs "Hello" and "World".
C6_SingleSpace ==
    (apc = "returned" /\ OnlyParagraphs) =>
        /\ adf_text = Strip(Join(Texts, <<" ">>))
        /\ \A c \in 1..Len(adf_text) : adf_text[c] # "\n"
        /\ adf_doc = HelloWorldDoc => adf_text = Hello \o <<" ">> \o World

\* C6 amended: the texts, none of them a lone newline, are joined by space,
\* newline, space and the result is trimmed: "Hello \n World".
C6_NewlineBetweenParagraphs ==
    (apc = "returned" /\ OnlyParagraphs /\ \A b \in 1..Len(Texts) : Texts[b] # <<"\n">>) =>
        /\ adf_text = Strip(Join(Texts, <<" ", "\n", " ">>))
        /\ adf_doc = HelloWorldDoc => adf_text = Hello \o <<" ", "\n", " ">> \o World

C6_Witness ==
    /\ apc = "returned" /\ adf_doc = HelloWorldDoc
    /\ adf_text = Hello \o <<" ", "\n", " ">> \o World

====
